---- MODULE Spec2Model ----
(***************************************************************************)
(* The HTTP/1.x connection engine of src/http/httpd.cc: one connection's   *)
(* read loop and respond loop around the bounded reply queue, the          *)
(* keep-alive policy of generate_reply, and the server's connection        *)
(* registry and counters.                                                  *)
(*                                                                         *)
(* An sstring is a sequence of tokens; numbers are formatted as sequences  *)
(* of decimal digit characters.  Every continuation of a future chain is   *)
(* one action; a connection's position in each chain is readPc / respPc.   *)
(***************************************************************************)
EXTENDS Integers, Sequences, FiniteSets, TLC

(* ------------------------------ bounds --------------------------------- *)

\* connection objects the server may ever construct
MaxConns == 2
\* requests a client pipelines on one connection (Spec)
MaxReqs == 3
\* requests on the connection when every request shape is drawn (PolicySpec)
MaxPolicyReqs == 1
\* capacity of the reply queue, drawn from 1..MaxCap
MaxCap == 2

Conns == 1..MaxConns

(* ------------------------------ sstring -------------------------------- *)

Digits == <<"0", "1", "2", "3", "4", "5", "6", "7", "8", "9">>

\* to_sstring(size_t): decimal formatting, most significant digit first
RECURSIVE to_sstring(_)
to_sstring(n) ==
    IF n < 10 THEN <<Digits[n + 1]>>
    ELSE to_sstring(n \div 10) \o <<Digits[(n % 10) + 1]>>

(* --------------------------- requests, replies ------------------------- *)

NoHeaders == <<>>

\* std::unordered_map<sstring, sstring>::operator[] assignment
SetHeader(h, k, v) == [x \in (DOMAIN h) \cup {k} |-> IF x = k THEN v ELSE h[x]]

HasHeader(h, k) == k \in DOMAIN h

\* a parsed request; id is its position in the connection's byte stream
Request(id, version, headers, url) ==
    [id |-> id, _version |-> version, _headers |-> headers, _url |-> url]

\* reply::reply(): a fresh reply, status ok, nothing set; id names the request
\* it answers
NewReply(id) ==
    [id |-> id, _version |-> <<>>, _status |-> <<"200 OK">>,
     _headers |-> NoHeaders, _content |-> <<>>, _response_line |-> <<>>]

\* reply::set_version
set_version(rep, version) == [rep EXCEPT !._version = version]

\* reply::done: the response line is computed from version and status
done(rep) ==
    [rep EXCEPT !._response_line = <<"HTTP/">> \o rep._version \o rep._status]

\* the terminal marker: an empty unique_ptr<reply>
Marker == [id |-> 0]

IsMarker(r) == r = Marker

(* ------------------------------- router -------------------------------- *)

Hello == <<"h", "i">>

Page == <<"0", "1", "2", "3", "4", "5", "6", "7", "8", "9", "a", "b">>

\* request::_url up to the query component
set_query_param(req) == req._url[1]

\* routes::handle: the handler the path selects fills the reply; the handler
\* of /custom also sets the headers the write path owns; /boom throws
RouteFails(path) == path = "/boom"

handle(path, req, rep) ==
    IF path = "/custom"
    THEN [rep EXCEPT !._content = Page,
                     !._headers = SetHeader(SetHeader(SetHeader(rep._headers,
                         "Content-Length", <<"7">>),
                         "Server", <<"custom">>),
                         "Date", <<"handler-date">>)]
    ELSE [rep EXCEPT !._content = Hello]

(* ------------------------------ dispatch ------------------------------- *)

\* fault: 1.1 handled like 1.0, open only on Keep-Alive
generate_reply_KeepAliveOnly(req) ==
    LET found == HasHeader(req._headers, "Connection")
        conn_keep_alive == found /\ req._headers["Connection"] = <<"Keep-Alive">>
        resp == set_version(NewReply(req.id), req._version)
    IN  [resp |-> IF req._version = <<"1.0">> /\ conn_keep_alive
                  THEN [resp EXCEPT !._headers =
                            SetHeader(@, "Connection", <<"Keep-Alive">>)]
                  ELSE resp,
         should_close |-> IF req._version \in {<<"1.0">>, <<"1.1">>}
                          THEN ~conn_keep_alive
                          ELSE TRUE,
         url |-> set_query_param(req),
         version |-> req._version,
         req |-> req]

\* connection::generate_reply up to the call of routes::handle: the reply
\* template, the close decision and the arguments of the router call
generate_reply(req) ==
    LET found == HasHeader(req._headers, "Connection")
        conn_keep_alive == found /\ req._headers["Connection"] = <<"Keep-Alive">>
        conn_close == found /\ ~conn_keep_alive
                            /\ req._headers["Connection"] = <<"Close">>
        resp == set_version(NewReply(req.id), req._version)
    IN  [resp |-> IF req._version = <<"1.0">> /\ conn_keep_alive
                  THEN [resp EXCEPT !._headers =
                            SetHeader(@, "Connection", <<"Keep-Alive">>)]
                  ELSE resp,
         should_close |-> IF req._version = <<"1.0">> THEN ~conn_keep_alive
                          ELSE IF req._version = <<"1.1">> THEN conn_close
                          ELSE TRUE,
         url |-> set_query_param(req),
         version |-> req._version,
         req |-> req]

\* fault: the reply is enqueued without reply::done
finalize_NoDone(rep, version) == set_version(rep, version)

\* the continuation of routes::handle in generate_reply: the reply is stamped
\* and finalized before it is pushed
finalize(rep, version) == done(set_version(rep, version))

\* fault: a header the handler has set is kept
start_response_KeepHandler(resp, date) ==
    LET Default(h, k, v) == IF HasHeader(h, k) THEN h ELSE SetHeader(h, k, v) IN
    [resp EXCEPT !._headers =
        Default(Default(Default(resp._headers,
            "Server", <<"Seastar httpd">>),
            "Date", date),
            "Content-Length", to_sstring(Len(resp._content)))]

\* connection::start_response, the three headers set before the first write
start_response(resp, date) ==
    [resp EXCEPT !._headers =
        SetHeader(SetHeader(SetHeader(resp._headers,
            "Server", <<"Seastar httpd">>),
            "Date", date),
            "Content-Length", to_sstring(Len(resp._content)))]

(* ----------------------------- reply queue ----------------------------- *)

\* queue<T>::full
full(q, max) == Len(q) >= max

\* queue<T>::push: refuses, and drops the item, when the queue is full
push(q, max, item) == IF Len(q) < max THEN Append(q, item) ELSE q

(* ------------------------------- state --------------------------------- *)

VARIABLES
    \* http_server
    _connections,          \* the live set
    _total_connections,
    _current_connections,
    _requests_served,
    _read_errors,
    _respond_errors,
    _date,
    idle_check,            \* what the last maybe_idle() call observed
    \* the clients
    clients,               \* the connections a client will open
    stream,                \* what each client sends before end-of-stream
    capacity,              \* capacity of every connection's reply queue
    \* connection
    lifecycle,             \* "unborn", "live", "destroyed"
    _done,
    _replies,
    _resp,
    _read_buf,             \* [pos, closed]
    _write_buf,            \* [out, closed]
    readPc,
    respPc,
    frame,                 \* the suspended generate_reply call
    read_exc,              \* the future of the read chain holds an exception
    resp_exc,              \* the future of the respond chain holds an exception
    \* history
    read_failed,           \* the read loop has failed
    respond_failed,        \* the respond loop has failed
    pushed,                \* ids pushed onto _replies, 0 for the marker
    popped,                \* number of items popped from _replies
    handled,               \* number of router invocations
    accepts,               \* number of connections registered
    destructions           \* number of connections destroyed

regVars == <<_connections, _total_connections, _current_connections, idle_check,
             accepts, destructions, lifecycle>>
envVars == <<clients, stream, capacity, _date>>
errVars == <<_read_errors, _respond_errors>>
readVars == <<_done, _read_buf, readPc, frame, read_exc, read_failed, handled,
              _requests_served>>
respVars == <<_resp, _write_buf, respPc, resp_exc, respond_failed>>
queueVars == <<_replies, pushed, popped>>

vars == <<regVars, envVars, errVars, readVars, respVars, queueVars>>

NoFrame == [none |-> TRUE]
NoReply == [none |-> TRUE]

(* ------------------------------- inputs -------------------------------- *)

Item(version, headers, url) ==
    [kind |-> "request", version |-> version, headers |-> headers, url |-> url]

\* a stream or parse error raised by _read_buf.consume
StreamError == [kind |-> "error"]

ConnectionHeader(v) == [k \in {"Connection"} |-> v]

\* the requests of the pipelining runs: a keep-alive request, a closing one,
\* one whose handler throws, and a stream error
SmallItems ==
    { Item(<<"1.1">>, NoHeaders, <<"/hello">>),
      Item(<<"1.1">>, ConnectionHeader(<<"Close">>), <<"/hello">>),
      Item(<<"1.1">>, NoHeaders, <<"/boom">>),
      StreamError }

Versions == { <<"1.0">>, <<"1.1">>, <<"0.9">> }

HeaderChoices ==
    { NoHeaders, ConnectionHeader(<<"Keep-Alive">>), ConnectionHeader(<<"Close">>),
      ConnectionHeader(<<"keep-alive">>) }

Urls == { <<"/custom">>, <<"/hello", "x=1">> }

\* every request shape the policy distinguishes, on both handlers
FullItems ==
    { Item(v, h, u) : v \in Versions, h \in HeaderChoices, u \in Urls }
        \cup { Item(<<"1.1">>, NoHeaders, <<"/boom">>), StreamError }

Streams(items, n) == UNION { [1..k -> items] : k \in 0..n }

\* the server's date string, refreshed by a timer outside this file
Dates == { <<"Thu, 01 Jan 2015 00:00:00 GMT">>, <<"Fri, 02 Jan 2015 00:00:00 GMT">> }

(* -------------------------------- Init --------------------------------- *)

\* the server after construction: no connection yet
Constructed ==
    /\ _connections = {}
    /\ _total_connections = 0
    /\ _current_connections = 0
    /\ _requests_served = 0
    /\ _read_errors = 0
    /\ _respond_errors = 0
    /\ idle_check = [none |-> TRUE]
    /\ lifecycle = [c \in Conns |-> "unborn"]
    /\ _done = [c \in Conns |-> FALSE]
    /\ _replies = [c \in Conns |-> <<>>]
    /\ _resp = [c \in Conns |-> NoReply]
    /\ _read_buf = [c \in Conns |-> [pos |-> 0, closed |-> 0]]
    /\ _write_buf = [c \in Conns |-> [out |-> <<>>, closed |-> 0]]
    /\ readPc = [c \in Conns |-> "idle"]
    /\ respPc = [c \in Conns |-> "idle"]
    /\ frame = [c \in Conns |-> NoFrame]
    /\ read_exc = [c \in Conns |-> FALSE]
    /\ resp_exc = [c \in Conns |-> FALSE]
    /\ read_failed = [c \in Conns |-> FALSE]
    /\ respond_failed = [c \in Conns |-> FALSE]
    /\ pushed = [c \in Conns |-> <<>>]
    /\ popped = [c \in Conns |-> 0]
    /\ handled = [c \in Conns |-> 0]
    /\ accepts = 0
    /\ destructions = 0

OnlyFirst(s) == [c \in Conns |-> IF c = 1 THEN s ELSE <<>>]

\* one client pipelining up to MaxReqs requests
Init ==
    /\ Constructed
    /\ clients = {1}
    /\ stream \in { OnlyFirst(s) : s \in Streams(SmallItems, MaxReqs) }
    /\ capacity \in 1..MaxCap
    /\ _date \in { CHOOSE d \in Dates : TRUE }

\* one client sending up to MaxPolicyReqs requests of any shape
PolicyInit ==
    /\ Constructed
    /\ clients = {1}
    /\ stream \in { OnlyFirst(s) : s \in Streams(FullItems, MaxPolicyReqs) }
    /\ capacity \in 1..MaxCap
    /\ _date \in Dates

\* the streams of the registry runs: silence, a stream error, one request
QuietStreams == { <<>>, <<StreamError>> }

ShortStreams ==
    QuietStreams
        \cup { <<Item(<<"1.1">>, ConnectionHeader(<<"Close">>), <<"/hello">>)>> }

\* every connection slot has a client; the first client may send a request
RegistryInit ==
    /\ Constructed
    /\ clients = Conns
    /\ stream \in { s \in [Conns -> ShortStreams] :
                      \A c \in Conns : c > 1 => s[c] \in QuietStreams }
    /\ capacity = 1
    /\ _date \in { CHOOSE d \in Dates : TRUE }

\* the streams of two busy clients: silence, a stream error, one request,
\* one request whose handler throws
BusyStreams ==
    ShortStreams \cup { <<Item(<<"1.1">>, NoHeaders, <<"/boom">>)>> }

\* every connection slot has a client; the first two may send a request
FrameInit ==
    /\ Constructed
    /\ clients = Conns
    /\ stream \in { s \in [Conns -> BusyStreams] :
                      \A c \in Conns : c > 2 => s[c] \in QuietStreams }
    /\ capacity = 1
    /\ _date \in { CHOOSE d \in Dates : TRUE }

(* ------------------------------ registry ------------------------------- *)

\* fault: the current counter is not incremented
on_new_connection_NoCurrent(c) ==
    /\ c \in clients
    /\ lifecycle[c] = "unborn"
    /\ _total_connections' = _total_connections + 1
    /\ _connections' = _connections \cup {c}
    /\ accepts' = accepts + 1
    /\ lifecycle' = [lifecycle EXCEPT ![c] = "live"]
    /\ readPc' = [readPc EXCEPT ![c] = "do_until"]
    /\ respPc' = [respPc EXCEPT ![c] = "pop_eventually"]
    /\ UNCHANGED <<_current_connections, idle_check, destructions, envVars, errVars,
                   _done, _read_buf, frame, read_exc, read_failed, handled,
                   _requests_served, _resp, _write_buf, resp_exc, respond_failed,
                   queueVars>>

\* connection::on_new_connection, called by the constructor when the server
\* accepts a socket; the two loops are started right after
on_new_connection(c) ==
    /\ c \in clients
    /\ lifecycle[c] = "unborn"
    /\ _total_connections' = _total_connections + 1
    /\ _current_connections' = _current_connections + 1
    /\ _connections' = _connections \cup {c}
    /\ accepts' = accepts + 1
    /\ lifecycle' = [lifecycle EXCEPT ![c] = "live"]
    /\ readPc' = [readPc EXCEPT ![c] = "do_until"]
    /\ respPc' = [respPc EXCEPT ![c] = "pop_eventually"]
    /\ UNCHANGED <<idle_check, destructions, envVars, errVars, _done, _read_buf,
                   frame, read_exc, read_failed, handled, _requests_served, _resp,
                   _write_buf,
                   resp_exc, respond_failed, queueVars>>

\* fault: maybe_idle() runs before the connection is unregistered
destructor_IdleFirst(c) ==
    /\ lifecycle[c] = "live"
    /\ readPc[c] = "done"
    /\ respPc[c] = "done"
    /\ idle_check' = [current |-> _current_connections, live |-> _connections]
    /\ _current_connections' = _current_connections - 1
    /\ _connections' = _connections \ {c}
    /\ destructions' = destructions + 1
    /\ lifecycle' = [lifecycle EXCEPT ![c] = "destroyed"]
    /\ UNCHANGED <<_total_connections, accepts, envVars, errVars, readVars,
                   respVars, queueVars>>

\* connection::~connection, run when both loops of the connection have
\* completed; maybe_idle() runs last and sees the registry as it is then
destructor(c) ==
    /\ lifecycle[c] = "live"
    /\ readPc[c] = "done"
    /\ respPc[c] = "done"
    /\ _current_connections' = _current_connections - 1
    /\ _connections' = _connections \ {c}
    /\ idle_check' = [current |-> _current_connections', live |-> _connections']
    /\ destructions' = destructions + 1
    /\ lifecycle' = [lifecycle EXCEPT ![c] = "destroyed"]
    /\ UNCHANGED <<_total_connections, accepts, envVars, errVars, readVars,
                   respVars, queueVars>>

(* ------------------------------ read loop ------------------------------ *)

\* fault: the loop runs until end-of-stream, whatever the close decision
ReadDoUntil_UntilEof(c) ==
    /\ readPc[c] = "do_until"
    /\ readPc' = [readPc EXCEPT ![c] =
                    IF _done[c] /\ _read_buf[c].pos >= Len(stream[c])
                    THEN "then_wrapped" ELSE "consume"]
    /\ UNCHANGED <<regVars, envVars, errVars, _done, _read_buf, frame, read_exc,
                   read_failed, handled, _requests_served, respVars, queueVars>>

\* connection::read, the condition of do_until
ReadDoUntil(c) ==
    /\ readPc[c] = "do_until"
    /\ readPc' = [readPc EXCEPT ![c] = IF _done[c] THEN "then_wrapped" ELSE "consume"]
    /\ UNCHANGED <<regVars, envVars, errVars, _done, _read_buf, frame, read_exc,
                   read_failed, handled, _requests_served, respVars, queueVars>>

\* fault: read_one pushes the marker itself at end-of-stream, and read()
\* pushes it again
ReadConsume_EofPushes(c) ==
    /\ readPc[c] = "consume"
    /\ LET pos == _read_buf[c].pos IN
       IF pos >= Len(stream[c])
       THEN /\ _done' = [_done EXCEPT ![c] = TRUE]
            /\ readPc' = [readPc EXCEPT ![c] = "do_until"]
            /\ _replies' = [_replies EXCEPT ![c] = push(@, capacity, Marker)]
            /\ pushed' = [pushed EXCEPT ![c] =
                            IF full(_replies[c], capacity) THEN @ ELSE Append(@, 0)]
            /\ UNCHANGED <<_read_buf, frame, read_exc, read_failed,
                           _requests_served, popped>>
       ELSE LET item == stream[c][pos + 1] IN
            /\ _read_buf' = [_read_buf EXCEPT ![c].pos = pos + 1]
            /\ IF item.kind = "error"
               THEN /\ read_exc' = [read_exc EXCEPT ![c] = TRUE]
                    /\ read_failed' = [read_failed EXCEPT ![c] = TRUE]
                    /\ readPc' = [readPc EXCEPT ![c] = "then_wrapped"]
                    /\ UNCHANGED <<frame, _requests_served>>
               ELSE /\ _requests_served' = _requests_served + 1
                    /\ frame' = [frame EXCEPT ![c] =
                          [req |-> Request(pos + 1, item.version, item.headers,
                                           item.url)]]
                    /\ readPc' = [readPc EXCEPT ![c] = "not_full"]
                    /\ UNCHANGED <<read_exc, read_failed>>
            /\ UNCHANGED <<_done, queueVars>>
    /\ UNCHANGED <<regVars, envVars, errVars, handled, respVars>>

\* fault: the counter is incremented before the end-of-stream test
ReadConsume_CountsEof(c) ==
    /\ readPc[c] = "consume"
    /\ LET pos == _read_buf[c].pos IN
       IF pos >= Len(stream[c])
       THEN /\ _done' = [_done EXCEPT ![c] = TRUE]
            /\ _requests_served' = _requests_served + 1
            /\ readPc' = [readPc EXCEPT ![c] = "do_until"]
            /\ UNCHANGED <<_read_buf, frame, read_exc, read_failed>>
       ELSE LET item == stream[c][pos + 1] IN
            /\ _read_buf' = [_read_buf EXCEPT ![c].pos = pos + 1]
            /\ IF item.kind = "error"
               THEN /\ read_exc' = [read_exc EXCEPT ![c] = TRUE]
                    /\ read_failed' = [read_failed EXCEPT ![c] = TRUE]
                    /\ readPc' = [readPc EXCEPT ![c] = "then_wrapped"]
                    /\ UNCHANGED <<frame, _requests_served>>
               ELSE /\ _requests_served' = _requests_served + 1
                    /\ frame' = [frame EXCEPT ![c] =
                          [req |-> Request(pos + 1, item.version, item.headers,
                                           item.url)]]
                    /\ readPc' = [readPc EXCEPT ![c] = "not_full"]
                    /\ UNCHANGED <<read_exc, read_failed>>
            /\ UNCHANGED _done
    /\ UNCHANGED <<regVars, envVars, errVars, handled, respVars, queueVars>>

\* connection::read_one, the continuation of _read_buf.consume(_parser)
ReadConsume(c) ==
    /\ readPc[c] = "consume"
    /\ LET pos == _read_buf[c].pos IN
       IF pos >= Len(stream[c])
       THEN \* _parser.eof()
            /\ _done' = [_done EXCEPT ![c] = TRUE]
            /\ readPc' = [readPc EXCEPT ![c] = "do_until"]
            /\ UNCHANGED <<_read_buf, frame, read_exc, read_failed, _requests_served>>
       ELSE LET item == stream[c][pos + 1] IN
            /\ _read_buf' = [_read_buf EXCEPT ![c].pos = pos + 1]
            /\ IF item.kind = "error"
               THEN /\ read_exc' = [read_exc EXCEPT ![c] = TRUE]
                    /\ read_failed' = [read_failed EXCEPT ![c] = TRUE]
                    /\ readPc' = [readPc EXCEPT ![c] = "then_wrapped"]
                    /\ UNCHANGED <<frame, _requests_served>>
               ELSE /\ _requests_served' = _requests_served + 1
                    /\ frame' = [frame EXCEPT ![c] =
                          [req |-> Request(pos + 1, item.version, item.headers,
                                           item.url)]]
                    /\ readPc' = [readPc EXCEPT ![c] = "not_full"]
                    /\ UNCHANGED <<read_exc, read_failed>>
            /\ UNCHANGED _done
    /\ UNCHANGED <<regVars, envVars, errVars, handled, respVars, queueVars>>

\* fault: dispatch does not wait for room in the queue
ReadNotFull_NoWait(c) ==
    /\ readPc[c] = "not_full"
    /\ frame' = [frame EXCEPT ![c] = generate_reply(frame[c].req)]
    /\ handled' = [handled EXCEPT ![c] = @ + 1]
    /\ readPc' = [readPc EXCEPT ![c] = "handle"]
    /\ UNCHANGED <<regVars, envVars, errVars, _done, _read_buf, read_exc,
                   read_failed, _requests_served, respVars, queueVars>>

\* fault: not_full() resolves only when two slots are free
ReadNotFull_WaitsForDrain(c) ==
    /\ readPc[c] = "not_full"
    /\ Len(_replies[c]) < capacity - 1
    /\ frame' = [frame EXCEPT ![c] = generate_reply(frame[c].req)]
    /\ handled' = [handled EXCEPT ![c] = @ + 1]
    /\ readPc' = [readPc EXCEPT ![c] = "handle"]
    /\ UNCHANGED <<regVars, envVars, errVars, _done, _read_buf, read_exc,
                   read_failed, _requests_served, respVars, queueVars>>

\* connection::read_one, the continuation of _replies.not_full(): dispatch
\* runs up to the router call
ReadNotFull(c) ==
    /\ readPc[c] = "not_full"
    /\ ~full(_replies[c], capacity)
    /\ frame' = [frame EXCEPT ![c] = generate_reply(frame[c].req)]
    /\ handled' = [handled EXCEPT ![c] = @ + 1]
    /\ readPc' = [readPc EXCEPT ![c] = "handle"]
    /\ UNCHANGED <<regVars, envVars, errVars, _done, _read_buf, read_exc,
                   read_failed, _requests_served, respVars, queueVars>>

\* fault: read_one drops the close decision of generate_reply
ReadHandle_KeepsDone(c) ==
    /\ readPc[c] = "handle"
    /\ LET f == frame[c] IN
       IF RouteFails(f.url)
       THEN /\ read_exc' = [read_exc EXCEPT ![c] = TRUE]
            /\ read_failed' = [read_failed EXCEPT ![c] = TRUE]
            /\ readPc' = [readPc EXCEPT ![c] = "then_wrapped"]
            /\ UNCHANGED queueVars
       ELSE LET rep == finalize(handle(f.url, f.req, f.resp), f.version) IN
            /\ _replies' = [_replies EXCEPT ![c] = push(@, capacity, rep)]
            /\ pushed' = [pushed EXCEPT ![c] =
                            IF full(_replies[c], capacity) THEN @
                            ELSE Append(@, rep.id)]
            /\ readPc' = [readPc EXCEPT ![c] = "do_until"]
            /\ UNCHANGED <<read_exc, read_failed, popped>>
    /\ frame' = [frame EXCEPT ![c] = NoFrame]
    /\ UNCHANGED <<regVars, envVars, errVars, _done, _read_buf, handled,
                   _requests_served, respVars>>

\* fault: the reply of a request whose handler threw is pushed all the same
ReadHandle_PushesOnFailure(c) ==
    /\ readPc[c] = "handle"
    /\ LET f == frame[c]
           rep == IF RouteFails(f.url) THEN finalize(f.resp, f.version)
                  ELSE finalize(handle(f.url, f.req, f.resp), f.version)
       IN
       /\ _replies' = [_replies EXCEPT ![c] = push(@, capacity, rep)]
       /\ pushed' = [pushed EXCEPT ![c] =
                       IF full(_replies[c], capacity) THEN @
                       ELSE Append(@, rep.id)]
       /\ IF RouteFails(f.url)
          THEN /\ read_exc' = [read_exc EXCEPT ![c] = TRUE]
               /\ read_failed' = [read_failed EXCEPT ![c] = TRUE]
               /\ readPc' = [readPc EXCEPT ![c] = "then_wrapped"]
               /\ UNCHANGED _done
          ELSE /\ _done' = [_done EXCEPT ![c] = f.should_close]
               /\ readPc' = [readPc EXCEPT ![c] = "do_until"]
               /\ UNCHANGED <<read_exc, read_failed>>
    /\ frame' = [frame EXCEPT ![c] = NoFrame]
    /\ UNCHANGED <<regVars, envVars, errVars, _read_buf, handled,
                   _requests_served, respVars, popped>>

\* connection::generate_reply, the continuation of routes::handle, and the
\* continuation of generate_reply in read_one
ReadHandle(c) ==
    /\ readPc[c] = "handle"
    /\ LET f == frame[c] IN
       IF RouteFails(f.url)
       THEN /\ read_exc' = [read_exc EXCEPT ![c] = TRUE]
            /\ read_failed' = [read_failed EXCEPT ![c] = TRUE]
            /\ readPc' = [readPc EXCEPT ![c] = "then_wrapped"]
            /\ UNCHANGED <<_done, queueVars>>
       ELSE LET rep == finalize(handle(f.url, f.req, f.resp), f.version) IN
            /\ _replies' = [_replies EXCEPT ![c] = push(@, capacity, rep)]
            /\ pushed' = [pushed EXCEPT ![c] =
                            IF full(_replies[c], capacity) THEN @
                            ELSE Append(@, rep.id)]
            /\ _done' = [_done EXCEPT ![c] = f.should_close]
            /\ readPc' = [readPc EXCEPT ![c] = "do_until"]
            /\ UNCHANGED <<read_exc, read_failed, popped>>
    /\ frame' = [frame EXCEPT ![c] = NoFrame]
    /\ UNCHANGED <<regVars, envVars, errVars, _read_buf, handled,
                   _requests_served, respVars>>

\* fault: a failed read loop also gives up the connection's slot in the
\* current counter, which the destructor gives up again
ReadThenWrapped_Unregisters(c) ==
    /\ readPc[c] = "then_wrapped"
    /\ _read_errors' = IF read_exc[c] THEN _read_errors + 1 ELSE _read_errors
    /\ _current_connections' =
          IF read_exc[c] THEN _current_connections - 1 ELSE _current_connections
    /\ read_exc' = [read_exc EXCEPT ![c] = FALSE]
    /\ IF full(_replies[c], capacity)
       THEN /\ readPc' = [readPc EXCEPT ![c] = "push_eventually"]
            /\ UNCHANGED queueVars
       ELSE /\ _replies' = [_replies EXCEPT ![c] = Append(@, Marker)]
            /\ pushed' = [pushed EXCEPT ![c] = Append(@, 0)]
            /\ readPc' = [readPc EXCEPT ![c] = "close"]
            /\ UNCHANGED popped
    /\ UNCHANGED <<_connections, _total_connections, idle_check, accepts,
                   destructions, lifecycle, envVars, _respond_errors, _done,
                   _read_buf, frame, read_failed, handled, _requests_served,
                   respVars>>

\* fault: then in place of then_wrapped, so that a failed loop skips the
\* continuation and its exception goes on to finally
ReadThenWrapped_Then(c) ==
    /\ readPc[c] = "then_wrapped"
    /\ IF read_exc[c]
       THEN /\ readPc' = [readPc EXCEPT ![c] = "close"]
            /\ UNCHANGED queueVars
       ELSE IF full(_replies[c], capacity)
       THEN /\ readPc' = [readPc EXCEPT ![c] = "push_eventually"]
            /\ UNCHANGED queueVars
       ELSE /\ _replies' = [_replies EXCEPT ![c] = Append(@, Marker)]
            /\ pushed' = [pushed EXCEPT ![c] = Append(@, 0)]
            /\ readPc' = [readPc EXCEPT ![c] = "close"]
            /\ UNCHANGED popped
    /\ UNCHANGED <<regVars, envVars, errVars, _done, _read_buf, frame, read_exc,
                   read_failed, handled, _requests_served, respVars>>

\* connection::read, the then_wrapped continuation: the error is counted and
\* swallowed, and push_eventually pushes the marker if there is room
ReadThenWrapped(c) ==
    /\ readPc[c] = "then_wrapped"
    /\ _read_errors' = IF read_exc[c] THEN _read_errors + 1 ELSE _read_errors
    /\ read_exc' = [read_exc EXCEPT ![c] = FALSE]
    /\ IF full(_replies[c], capacity)
       THEN /\ readPc' = [readPc EXCEPT ![c] = "push_eventually"]
            /\ UNCHANGED queueVars
       ELSE /\ _replies' = [_replies EXCEPT ![c] = Append(@, Marker)]
            /\ pushed' = [pushed EXCEPT ![c] = Append(@, 0)]
            /\ readPc' = [readPc EXCEPT ![c] = "close"]
            /\ UNCHANGED popped
    /\ UNCHANGED <<regVars, envVars, _respond_errors, _done, _read_buf, frame,
                   read_failed, handled, _requests_served, respVars>>

\* queue::push_eventually, the continuation of not_full()
ReadPushEventually(c) ==
    /\ readPc[c] = "push_eventually"
    /\ ~full(_replies[c], capacity)
    /\ _replies' = [_replies EXCEPT ![c] = Append(@, Marker)]
    /\ pushed' = [pushed EXCEPT ![c] = Append(@, 0)]
    /\ readPc' = [readPc EXCEPT ![c] = "close"]
    /\ UNCHANGED <<regVars, envVars, errVars, _done, _read_buf, frame, read_exc,
                   read_failed, handled, _requests_served, respVars, popped>>

\* connection::read, the finally continuation
ReadClose(c) ==
    /\ readPc[c] = "close"
    /\ _read_buf' = [_read_buf EXCEPT ![c].closed = @ + 1]
    /\ readPc' = [readPc EXCEPT ![c] = "done"]
    /\ UNCHANGED <<regVars, envVars, errVars, _done, frame, read_exc,
                   read_failed, handled, _requests_served, respVars, queueVars>>

(* ----------------------------- respond loop ---------------------------- *)

WriteStages == <<"write_line", "write_headers", "write_blank", "write_body", "flush">>

StageOf(pc) == CHOOSE i \in 1..Len(WriteStages) : WriteStages[i] = pc

Writing(c) == \E i \in 1..Len(WriteStages) : WriteStages[i] = respPc[c]

\* what one step of the write sequence of start_response puts on the socket
Written(pc, resp) ==
    [ev |-> pc, id |-> resp.id,
     data |-> CASE pc = "write_line" -> resp._response_line
                [] pc = "write_headers" -> resp._headers
                [] pc = "write_body" -> resp._content
                [] OTHER -> <<>>]

\* fault: the loop goes on to the next pop without writing the response
RespPop_Drop(c) ==
    /\ respPc[c] = "pop_eventually"
    /\ Len(_replies[c]) > 0
    /\ _replies' = [_replies EXCEPT ![c] = Tail(@)]
    /\ popped' = [popped EXCEPT ![c] = @ + 1]
    /\ respPc' = [respPc EXCEPT ![c] =
                    IF IsMarker(Head(_replies[c])) THEN "then_wrapped"
                    ELSE "pop_eventually"]
    /\ UNCHANGED <<regVars, envVars, errVars, readVars, _resp, _write_buf, resp_exc,
                   respond_failed, pushed>>

\* connection::do_response_loop, the continuation of pop_eventually, and
\* start_response up to its first write
RespPop(c) ==
    /\ respPc[c] = "pop_eventually"
    /\ Len(_replies[c]) > 0
    /\ LET resp == Head(_replies[c]) IN
       /\ _replies' = [_replies EXCEPT ![c] = Tail(@)]
       /\ popped' = [popped EXCEPT ![c] = @ + 1]
       /\ IF IsMarker(resp)
          THEN /\ respPc' = [respPc EXCEPT ![c] = "then_wrapped"]
               /\ UNCHANGED _resp
          ELSE /\ _resp' = [_resp EXCEPT ![c] = start_response(resp, _date)]
               /\ respPc' = [respPc EXCEPT ![c] = "write_line"]
    /\ UNCHANGED <<regVars, envVars, errVars, readVars, _write_buf, resp_exc,
                   respond_failed, pushed>>

\* connection::start_response, one write (or the flush) completing
RespWrite(c) ==
    /\ Writing(c)
    /\ _write_buf' = [_write_buf EXCEPT ![c].out = Append(@, Written(respPc[c], _resp[c]))]
    /\ IF respPc[c] = "flush"
       THEN /\ _resp' = [_resp EXCEPT ![c] = NoReply]
            /\ respPc' = [respPc EXCEPT ![c] = "pop_eventually"]
       ELSE /\ respPc' = [respPc EXCEPT ![c] = WriteStages[StageOf(respPc[c]) + 1]]
            /\ UNCHANGED _resp
    /\ UNCHANGED <<regVars, envVars, errVars, readVars, resp_exc, respond_failed,
                   queueVars>>

\* a write or the flush failing: the rest of the chain is skipped
RespWriteFails(c) ==
    /\ Writing(c)
    /\ resp_exc' = [resp_exc EXCEPT ![c] = TRUE]
    /\ respond_failed' = [respond_failed EXCEPT ![c] = TRUE]
    /\ respPc' = [respPc EXCEPT ![c] = "then_wrapped"]
    /\ UNCHANGED <<regVars, envVars, errVars, readVars, _resp, _write_buf, queueVars>>

\* fault: then in place of then_wrapped, so that a failed loop is neither
\* counted nor followed by the close of the write stream
RespThenWrapped_Then(c) ==
    /\ respPc[c] = "then_wrapped"
    /\ IF resp_exc[c]
       THEN UNCHANGED _write_buf
       ELSE _write_buf' = [_write_buf EXCEPT ![c].closed = @ + 1]
    /\ respPc' = [respPc EXCEPT ![c] = "close"]
    /\ UNCHANGED <<regVars, envVars, errVars, readVars, _resp, resp_exc,
                   respond_failed, queueVars>>

\* connection::respond, the then_wrapped continuation
RespThenWrapped(c) ==
    /\ respPc[c] = "then_wrapped"
    /\ _respond_errors' = IF resp_exc[c] THEN _respond_errors + 1 ELSE _respond_errors
    /\ resp_exc' = [resp_exc EXCEPT ![c] = FALSE]
    /\ _write_buf' = [_write_buf EXCEPT ![c].closed = @ + 1]
    /\ respPc' = [respPc EXCEPT ![c] = "close"]
    /\ UNCHANGED <<regVars, envVars, _read_errors, readVars, _resp, respond_failed,
                   queueVars>>

\* _write_buf.close() completing: the future of respond() resolves
RespClosed(c) ==
    /\ respPc[c] = "close"
    /\ respPc' = [respPc EXCEPT ![c] = "done"]
    /\ UNCHANGED <<regVars, envVars, errVars, readVars, _resp, _write_buf, resp_exc,
                   respond_failed, queueVars>>

(* ---------------------------- specifications --------------------------- *)

ReadLoop(c) ==
    \/ ReadDoUntil(c)
    \/ ReadConsume(c)
    \/ ReadNotFull(c)
    \/ ReadHandle(c)
    \/ ReadThenWrapped(c)
    \/ ReadPushEventually(c)
    \/ ReadClose(c)

RespondLoop(c) ==
    \/ RespPop(c)
    \/ RespWrite(c)
    \/ RespWriteFails(c)
    \/ RespThenWrapped(c)
    \/ RespClosed(c)

Next ==
    \E c \in Conns :
        \/ on_new_connection(c)
        \/ destructor(c)
        \/ ReadLoop(c)
        \/ RespondLoop(c)

Spec == Init /\ [][Next]_vars

PolicySpec == PolicyInit /\ [][Next]_vars

RegistrySpec == RegistryInit /\ [][Next]_vars

\* the reactor runs every ready continuation, and streams, router and
\* client complete what they started
Fairness == \A c \in Conns : WF_vars(ReadLoop(c)) /\ WF_vars(RespondLoop(c))

LiveSpec == Init /\ [][Next]_vars /\ Fairness

FrameSpec == FrameInit /\ [][Next]_vars

(* ------------------------- reading the history ------------------------- *)

Out(c) == _write_buf[c].out

\* ids of the responses that reached the given step of the write sequence
RECURSIVE IdsOf(_, _)
IdsOf(out, ev) ==
    IF out = <<>> THEN <<>>
    ELSE IF Head(out).ev = ev THEN <<Head(out).id>> \o IdsOf(Tail(out), ev)
    ELSE IdsOf(Tail(out), ev)

\* the responses written and flushed, in the order of their flush
Flushed(c) == IdsOf(Out(c), "flush")

\* the ids 1..n in order
Upto(n) == [i \in 1..n |-> i]

MarkerPushed(c) == Len(pushed[c]) > 0 /\ pushed[c][Len(pushed[c])] = 0

MarkerPopped(c) == MarkerPushed(c) /\ popped[c] = Len(pushed[c])

\* the response line and body the router produces for the i-th item of the
\* stream of c
Answer(c, i) ==
    LET item == stream[c][i]
        g == generate_reply(Request(i, item.version, item.headers, item.url))
    IN  finalize(handle(g.url, g.req, g.resp), g.version)

(* C1: on one connection the responses are written in the order the        *)
(* requests were parsed, each response carrying what dispatch produced for *)
(* its request, none lost and none duplicated: the i-th response written   *)
(* answers the i-th request, and when both loops have ended without any    *)
(* failure every parsed request has its response written and flushed.      *)
C1_ResponsesInRequestOrder ==
    \A c \in Conns :
        /\ \A ev \in {"write_line", "write_headers", "write_blank", "write_body", "flush"} :
              LET ids == IdsOf(Out(c), ev) IN ids = Upto(Len(ids))
        /\ \A k \in 1..Len(Out(c)) :
              LET e == Out(c)[k] IN
                 /\ e.ev = "write_line" => e.data = Answer(c, e.id)._response_line
                 /\ e.ev = "write_body" => e.data = Answer(c, e.id)._content
        /\ (respPc[c] = "done" /\ readPc[c] = "done"
                /\ ~read_failed[c] /\ ~respond_failed[c])
              => Flushed(c) = Upto(_read_buf[c].pos)

\* two or more pipelined requests answered through a queue of capacity 1
C1_Witness ==
    /\ capacity = 1
    /\ respPc[1] = "done" /\ readPc[1] = "done"
    /\ ~read_failed[1] /\ ~respond_failed[1]
    /\ Len(Flushed(1)) >= 2

(* C2: however the read loop of a connection ends (end-of-stream, a close   *)
(* decision, a failure of the stream, the parser or the router), the       *)
(* respond loop of that connection eventually terminates; unless a write   *)
(* has failed, it terminates by popping the terminal marker, which the     *)
(* read loop has enqueued.                                                 *)
C2_RespondLoopTerminates ==
    \A c \in Conns :
        (readPc[c] = "then_wrapped")
            ~> (respPc[c] = "done" /\ (respond_failed[c] \/ MarkerPopped(c)))

\* the router threw, and the respond loop still ended by popping the marker
C2_Witness ==
    /\ read_failed[1] /\ handled[1] > 0 /\ frame[1] = NoFrame
    /\ Len(pushed[1]) = handled[1]
    /\ ~respond_failed[1]
    /\ respPc[1] = "done"
    /\ MarkerPopped(1)

(* C3: after any failure on the read path or on the respond path of a      *)
(* connection both of its loops eventually terminate: the read loop pushes *)
(* the terminal marker and closes the read stream, the respond loop closes *)
(* the write stream; after a write failure the read loop is never left     *)
(* waiting for room in the reply queue forever.                            *)
C3_BothLoopsTerminate ==
    \A c \in Conns :
        (read_failed[c] \/ respond_failed[c])
            ~> (/\ readPc[c] = "done" /\ MarkerPushed(c) /\ _read_buf[c].closed = 1
                /\ respPc[c] = "done" /\ _write_buf[c].closed = 1)

(* ---------------------------- keep-alive policy ------------------------ *)

\* the Connection header of a request, <<>> when it has none
ConnectionOf(req) ==
    IF "Connection" \in DOMAIN req._headers THEN req._headers["Connection"] ELSE <<>>

\* the close decision of the policy table
TableCloses(req) ==
    CASE req._version = <<"1.0">> /\ ConnectionOf(req) = <<"Keep-Alive">> -> FALSE
      [] req._version = <<"1.0">> /\ ConnectionOf(req) # <<"Keep-Alive">> -> TRUE
      [] req._version = <<"1.1">> /\ ConnectionOf(req) = <<"Close">> -> TRUE
      [] req._version = <<"1.1">> /\ ConnectionOf(req) # <<"Close">> -> FALSE
      [] OTHER -> TRUE

(* C4: for every request, dispatch follows the keep-alive table: 1.0 with  *)
(* Connection: Keep-Alive stays open and the response gets Connection:     *)
(* Keep-Alive; 1.0 otherwise closes; 1.1 with Connection: Close closes;    *)
(* 1.1 otherwise stays open; any other version closes.  Dispatch sets the  *)
(* response's Connection header in the first case only.                    *)
C4_KeepAlivePolicy ==
    \A c \in Conns :
        readPc[c] = "handle" =>
            LET f == frame[c]
                first == f.req._version = <<"1.0">>
                           /\ ConnectionOf(f.req) = <<"Keep-Alive">>
            IN  /\ f.should_close = TableCloses(f.req)
                /\ first => /\ "Connection" \in DOMAIN f.resp._headers
                            /\ f.resp._headers["Connection"] = <<"Keep-Alive">>
                /\ ~first => f.resp._headers = NoHeaders

\* a 1.0 request with Connection: Keep-Alive has been dispatched and keeps
\* the connection open
C4_Witness ==
    /\ readPc[1] = "handle"
    /\ frame[1].req._version = <<"1.0">>
    /\ ConnectionOf(frame[1].req) = <<"Keep-Alive">>
    /\ ~frame[1].should_close
    /\ frame[1].resp._headers = ConnectionHeader(<<"Keep-Alive">>)

(* ------------------------------- registry ------------------------------ *)

(* C5: in every reachable state of the registry current_connections is the *)
(* size of the live set, which holds exactly the connections constructed   *)
(* and not yet destroyed; after N registrations and M destructions it is   *)
(* N - M, total_connections is N, and total_connections never decreases.   *)
C5_RegistryCounts ==
    /\ [](/\ _current_connections = Cardinality(_connections)
          /\ _connections = {c \in Conns : lifecycle[c] = "live"}
          /\ _current_connections = accepts - destructions
          /\ _total_connections = accepts)
    /\ [][_total_connections' >= _total_connections]_vars

\* two registrations and one destruction
C5_Witness == accepts = 2 /\ destructions = 1 /\ _current_connections = 1

(* C6: destroying a connection removes that connection and no other from   *)
(* the live set, decrements current_connections by exactly 1, leaves       *)
(* total_connections unchanged, and runs the idle check after the removal: *)
(* the idle check sees the decremented count and the shrunk live set.      *)
C6_DestructorUnregisters ==
    [][\A c \in Conns :
          (lifecycle[c] = "live" /\ lifecycle'[c] = "destroyed") =>
              /\ c \in _connections
              /\ _connections' = _connections \ {c}
              /\ _current_connections' = _current_connections - 1
              /\ _total_connections' = _total_connections
              /\ idle_check' = [current |-> _current_connections - 1,
                                live |-> _connections \ {c}]]_vars

\* the first of two connections has been destroyed while the other lives
C6_Witness ==
    /\ lifecycle[1] = "destroyed" /\ lifecycle[2] = "live"
    /\ idle_check = [current |-> 1, live |-> {2}]
    /\ _current_connections = 1 /\ _total_connections = 2

(* ---------------------------- response headers ------------------------- *)

DigitValue(ch) == CHOOSE d \in 0..9 : Digits[d + 1] = ch

\* the number a decimal string denotes
RECURSIVE DecimalValue(_)
DecimalValue(str) ==
    IF str = <<>> THEN 0
    ELSE 10 * DecimalValue(SubSeq(str, 1, Len(str) - 1)) + DigitValue(str[Len(str)])

IsDecimal(str) ==
    /\ Len(str) >= 1
    /\ \A i \in 1..Len(str) : \E d \in 0..9 : Digits[d + 1] = str[i]

\* the headers written for the response with this id
HeadersWritten(c, id) ==
    LET k == CHOOSE k \in 1..Len(Out(c)) :
                 Out(c)[k].ev = "write_headers" /\ Out(c)[k].id = id
    IN  Out(c)[k].data

(* C7: for every response written, the Content-Length header on the wire   *)
(* is the decimal length of the body on the wire, and Server and Date are  *)
(* the server's, whatever the handler put under these three keys: they are *)
(* overwritten before the first byte of the response is written.           *)
C7_ContentLengthIsBodyLength ==
    \A c \in Conns :
        /\ \A k \in 1..Len(Out(c)) :
              Out(c)[k].ev = "write_body" =>
                  LET h == HeadersWritten(c, Out(c)[k].id) IN
                     /\ IsDecimal(h["Content-Length"])
                     /\ DecimalValue(h["Content-Length"]) = Len(Out(c)[k].data)
                     /\ h["Server"] = <<"Seastar httpd">>
                     /\ h["Date"] = _date
        /\ Writing(c) =>
              /\ IsDecimal(_resp[c]._headers["Content-Length"])
              /\ DecimalValue(_resp[c]._headers["Content-Length"]) = Len(_resp[c]._content)
              /\ _resp[c]._headers["Server"] = <<"Seastar httpd">>
              /\ _resp[c]._headers["Date"] = _date

\* a body of 12 bytes written for a handler that declared a length of 7
C7_Witness ==
    \E k \in 1..Len(Out(1)) :
        /\ Out(1)[k].ev = "write_body"
        /\ Len(Out(1)[k].data) = 12
        /\ Answer(1, Out(1)[k].id)._headers["Content-Length"] = <<"7">>
        /\ HeadersWritten(1, Out(1)[k].id)["Content-Length"] = <<"1", "2">>

(* ----------------------------- error handling -------------------------- *)

\* the read chain of c is past its then_wrapped continuation
ReadSwallowed(c) == readPc[c] \in {"push_eventually", "close", "done"}

\* the respond chain of c is past its then_wrapped continuation
RespondSwallowed(c) == respPc[c] \in {"close", "done"}

\* the read-error counter counts each failed read loop once and nothing
\* else, read() never completes with an exception, and the read stream is
\* closed at most once and only after the marker was pushed
C8_Counted ==
    /\ _read_errors = Cardinality({c \in Conns : read_failed[c] /\ ReadSwallowed(c)})
    /\ \A c \in Conns :
          /\ readPc[c] = "done" => ~read_exc[c]
          /\ _read_buf[c].closed = (IF readPc[c] = "done" THEN 1 ELSE 0)
          /\ _read_buf[c].closed = 1 => MarkerPushed(c)

\* after a failure the read loop parses and dispatches nothing more
C8_StopsParsing ==
    \A c \in Conns :
        read_failed[c] =>
            /\ _read_buf'[c].pos = _read_buf[c].pos
            /\ handled'[c] = handled[c]
            /\ _requests_served' = _requests_served

(* C8: a failure anywhere in the read loop is counted exactly once in the  *)
(* read-error counter, does not reach the caller of read(), stops all      *)
(* further parsing on the connection, and is followed by the push of the   *)
(* terminal marker and then by the close of the read stream; a read loop   *)
(* that ends without failure leaves the counter alone and performs the     *)
(* same marker-then-close sequence.                                        *)
C8_ReadFailureSwallowed ==
    /\ []C8_Counted
    /\ [][C8_StopsParsing]_vars
    /\ \A c \in Conns :
          (readPc[c] = "then_wrapped")
              ~> (readPc[c] = "done" /\ MarkerPushed(c) /\ _read_buf[c].closed = 1)

\* the respond-error counter counts each failed respond loop once and
\* nothing else, respond() never completes with an exception, and the write
\* stream is closed exactly once, when the loop has ended
C9_Counted ==
    /\ _respond_errors =
          Cardinality({c \in Conns : respond_failed[c] /\ RespondSwallowed(c)})
    /\ \A c \in Conns :
          /\ respPc[c] = "done" => ~resp_exc[c]
          /\ _write_buf[c].closed = (IF RespondSwallowed(c) THEN 1 ELSE 0)
          /\ (RespondSwallowed(c) /\ ~respond_failed[c]) => MarkerPopped(c)

\* after a write failure nothing more is written and nothing more is popped
C9_EndsAtOnce ==
    \A c \in Conns :
        respond_failed[c] =>
            /\ Out(c)' = Out(c)
            /\ popped'[c] = popped[c]
            /\ Len(_replies'[c]) >= Len(_replies[c])

(* C9: a failure in the write sequence of a response is counted exactly    *)
(* once in the respond-error counter, does not reach the caller of         *)
(* respond(), and ends the respond loop at once: nothing more is written   *)
(* and nothing more is popped.  The write stream is closed exactly once,   *)
(* whether the loop ended by the terminal marker or by a failure, and the  *)
(* counter is unchanged when it ended by the marker.                       *)
C9_WriteFailureSwallowed ==
    /\ []C9_Counted
    /\ [][C9_EndsAtOnce]_vars

\* the respond loop has ended by a failure in the middle of a response,
\* leaving a later response in the queue
C9_Witness ==
    /\ respond_failed[1] /\ respPc[1] = "done"
    /\ _respond_errors = 1
    /\ _write_buf[1].closed = 1
    /\ Len(Out(1)) = 2
    /\ Len(_replies[1]) > 0

(* ------------------------------ pipelining ----------------------------- *)

\* requests handed to the router minus responses written and flushed
Depth(c) == handled[c] - Len(Flushed(c))

(* C10 as claimed: the number of requests dispatched minus the number of   *)
(* responses written and flushed never exceeds the capacity of the reply   *)
(* queue.                                                                  *)
C10_DepthAtMostCapacity == \A c \in Conns : Depth(c) <= capacity

(* C10: the number of requests dispatched minus the number of responses    *)
(* written and flushed never exceeds the capacity of the reply queue plus  *)
(* one: the queue holds at most capacity - 1 responses when a request is   *)
(* dispatched, and one more response may have been popped and not yet      *)
(* flushed.                                                                *)
C10_DepthAtMostCapacityPlusOne == \A c \in Conns : Depth(c) <= capacity + 1

\* the bound is met: the queue one short of full, one response being
\* written, one request at the router
C10_Witness ==
    /\ Depth(1) = capacity + 1
    /\ readPc[1] = "handle"
    /\ Len(_replies[1]) = capacity - 1
    /\ Writing(1)

(* --------------------------- frame of a failure ------------------------ *)

\* this step is a failure of a loop of c, or the step that counts and
\* swallows it
FailureStep(c) ==
    \/ ~read_failed[c] /\ read_failed'[c]
    \/ ~respond_failed[c] /\ respond_failed'[c]
    \/ read_exc[c] /\ ~read_exc'[c]
    \/ resp_exc[c] /\ ~resp_exc'[c]

\* everything the engine keeps for connection d
ConnectionState(d) ==
    <<_replies[d], _done[d], readPc[d], respPc[d], _resp[d], _read_buf[d],
      _write_buf[d], frame[d], lifecycle[d], read_exc[d], resp_exc[d]>>

(* C11: a failure on the read path, in dispatch or on the respond path of  *)
(* one connection changes only that connection's own state and the read-   *)
(* error or respond-error counter of the server: the live set, the total   *)
(* and current counters, and the reply queue, done flag and loop progress  *)
(* of every other connection stay as they are.                             *)
C11_FailureIsLocal ==
    [][\A c \in Conns :
          FailureStep(c) =>
              /\ _connections' = _connections
              /\ _total_connections' = _total_connections
              /\ _current_connections' = _current_connections
              /\ _requests_served' = _requests_served
              /\ lifecycle' = lifecycle
              /\ _read_errors' - _read_errors \in {0, 1}
              /\ _respond_errors' - _respond_errors \in {0, 1}
              /\ \A d \in Conns \ {c} : ConnectionState(d)' = ConnectionState(d)]_vars

\* the second connection has failed and been counted while the first is in
\* the middle of writing a response
C11_Witness ==
    /\ read_failed[2] /\ ReadSwallowed(2) /\ _read_errors = 1
    /\ respPc[1] = "write_body"
    /\ _connections = {1, 2} /\ _current_connections = 2

(* ------------------------------ reply queue ---------------------------- *)

\* the ids of the responses pushed, the marker left out
ResponsesPushed(c) == SelectSeq(pushed[c], LAMBDA id : id # 0)

\* the router throws on the i-th item of the stream of c
Throws(c, i) == RouteFails(stream[c][i].url[1])

(* C12: whenever dispatch pushes a finished response the reply queue holds *)
(* fewer items than its capacity, so the push succeeds and no response is  *)
(* dropped: every request whose router call has returned a response is in  *)
(* the queue's history, and the queue never holds more than its capacity.  *)
(* The router may stay suspended for any number of steps of the respond    *)
(* loop between the wait for room and the push.                            *)
C12_PushHasRoom ==
    \A c \in Conns :
        /\ Len(_replies[c]) <= capacity
        /\ readPc[c] = "handle" => Len(_replies[c]) < capacity
        /\ \A i \in 1..handled[c] :
              \/ readPc[c] = "handle" /\ i = handled[c]
              \/ Throws(c, i)
              \/ \E k \in 1..Len(pushed[c]) : pushed[c][k] = i

\* three pushes and one pop: the third push has filled the queue
C12_Witness ==
    /\ capacity = 2
    /\ readPc[1] = "do_until"
    /\ Len(_replies[1]) = capacity
    /\ ResponsesPushed(1) = Upto(3)
    /\ popped[1] = 1

(* C13: over the life of a connection the terminal marker is enqueued at   *)
(* most once and no response is enqueued after it: in the history of the   *)
(* queue and in the queue itself the marker, if present, is the last item. *)
C13_MarkerOnceAndLast ==
    \A c \in Conns :
        /\ \A k \in 1..Len(pushed[c]) : pushed[c][k] = 0 => k = Len(pushed[c])
        /\ \A k \in 1..Len(_replies[c]) :
              IsMarker(_replies[c][k]) => k = Len(_replies[c])

\* the marker sits in the queue behind a response
C13_Witness ==
    /\ Len(_replies[1]) = 2
    /\ IsMarker(_replies[1][2])
    /\ ~IsMarker(_replies[1][1])
    /\ readPc[1] = "done"

(* C14: the done flag of a connection is monotonic: once true, by          *)
(* end-of-stream or by a close decision, it is never false again, although *)
(* read_one assigns it the close decision of every dispatched request.     *)
C14_DoneIsMonotonic ==
    [][\A c \in Conns : _done[c] => _done'[c]]_vars

\* done was set by a close decision while the client has pipelined more,
\* and the read loop has ended
C14_Witness ==
    /\ _done[1]
    /\ _read_buf[1].pos < Len(stream[1])
    /\ ~read_failed[1]
    /\ readPc[1] = "done"

(* ------------------------------ close decision ------------------------ *)

IsRequest(c, i) == stream[c][i].kind = "request"

\* the policy table closes the connection on the i-th item of the stream
Closes(c, i) ==
    /\ IsRequest(c, i)
    /\ TableCloses(Request(i, stream[c][i].version, stream[c][i].headers,
                           stream[c][i].url))

\* the read chain of c is past do_until
ReadLoopEnded(c) == readPc[c] \in {"then_wrapped", "push_eventually", "close", "done"}

\* nothing is parsed after a closing request, a closing response is the
\* last one enqueued, and the loop ends for one of its three reasons only
C15_StopsAfterClose ==
    \A c \in Conns :
        /\ \A i \in 1..(_read_buf[c].pos - 1) :
              IsRequest(c, i) /\ ~Closes(c, i) /\ ~Throws(c, i)
        /\ \A k \in 1..Len(pushed[c]) :
              (pushed[c][k] # 0 /\ Closes(c, pushed[c][k])) =>
                  \/ k = Len(pushed[c])
                  \/ k + 1 = Len(pushed[c]) /\ pushed[c][k + 1] = 0
        /\ ReadLoopEnded(c) =>
              \/ read_failed[c]
              \/ _read_buf[c].pos = Len(stream[c])
              \/ _read_buf[c].pos >= 1 /\ Closes(c, _read_buf[c].pos)

(* C15: after dispatch has returned a close decision of true the read loop *)
(* parses and dispatches nothing more on the connection: the response to   *)
(* that request is the last response enqueued and the marker follows it,   *)
(* whatever the client has pipelined behind it.  While the decision is     *)
(* false and there is neither end-of-stream nor failure, the read loop     *)
(* goes on to parse the next request.                                      *)
C15_CloseDecisionEndsReading ==
    /\ []C15_StopsAfterClose
    /\ \A c \in Conns :
          (readPc[c] = "do_until" /\ ~_done[c])
              ~> (readPc[c] \in {"not_full", "then_wrapped"} \/ _done[c])

\* a closing request with more requests pipelined behind it: its response
\* and the marker are all that was enqueued
C15_Witness ==
    /\ Len(stream[1]) >= 2
    /\ Closes(1, 1)
    /\ _read_buf[1].pos = 1
    /\ pushed[1] = <<1, 0>>
    /\ readPc[1] = "done"

(* ------------------------------ draining -------------------------------- *)

\* the respond loop of c has left do_response_loop without a write failure
RespondEndedCleanly(c) ==
    respPc[c] \in {"then_wrapped", "close", "done"} /\ ~respond_failed[c]

\* every response pushed by the read loop of c went through all five steps
\* of start_response, and nothing is left in the queue
Drained(c) ==
    /\ _replies[c] = <<>>
    /\ Flushed(c) = ResponsesPushed(c)
    /\ Len(Out(c)) = Len(WriteStages) * Len(ResponsesPushed(c))
    /\ _resp[c] = NoReply

(* C16: when the respond loop ends by popping the terminal marker, every   *)
(* response ever enqueued on the connection has been written and flushed   *)
(* and the channel is empty; the write stream is closed only after that.   *)
C16_MarkerPoppedMeansDrained ==
    \A c \in Conns :
        /\ RespondEndedCleanly(c) => MarkerPopped(c) /\ Drained(c)
        /\ (_write_buf[c].closed > 0 /\ ~respond_failed[c]) =>
              MarkerPopped(c) /\ Drained(c)
        /\ (RespondEndedCleanly(c) /\ respPc[c] = "then_wrapped") =>
              _write_buf[c].closed = 0

\* two responses flushed, then the marker popped and the stream closed
C16_Witness ==
    /\ respPc[1] = "done"
    /\ ~respond_failed[1]
    /\ MarkerPopped(1)
    /\ Len(Flushed(1)) >= 2
    /\ _write_buf[1].closed = 1

(* ------------------------------ one response at a time ------------------ *)

\* reply r of connection c went through set_version and done in dispatch
Finalized(c, r) ==
    /\ r._version = stream[c][r.id].version
    /\ r._response_line = <<"HTTP/">> \o r._version \o r._status
    /\ r._response_line # <<>>

\* the wire carries whole groups of five events, one group per response, in
\* the order of start_response; only the last group may be incomplete
WireInOrder(c) ==
    \A k \in 1..Len(Out(c)) :
        LET n == ((k - 1) \div Len(WriteStages)) + 1 IN
        /\ Out(c)[k].ev = WriteStages[((k - 1) % Len(WriteStages)) + 1]
        /\ n <= Len(ResponsesPushed(c))
        /\ Out(c)[k].id = ResponsesPushed(c)[n]
        /\ Out(c)[k].ev = "write_line" =>
              Out(c)[k].data = <<"HTTP/">> \o stream[c][Out(c)[k].id].version
                                   \o <<"200 OK">>

C17_OneCurrent ==
    \A c \in Conns :
        /\ WireInOrder(c)
        /\ Writing(c) =>
              /\ _resp[c] # NoReply
              /\ _resp[c].id = ResponsesPushed(c)[popped[c]]
              /\ Finalized(c, _resp[c])
              /\ Len(Out(c)) = Len(WriteStages) * (popped[c] - 1)
                                   + StageOf(respPc[c]) - 1
        /\ respPc[c] = "pop_eventually" =>
              /\ _resp[c] = NoReply
              /\ Len(Out(c)) = Len(WriteStages) * popped[c]
        /\ \A k \in 1..Len(_replies[c]) :
              IsMarker(_replies[c][k]) \/ Finalized(c, _replies[c][k])

\* a pop happens only with no current response and the last group flushed
C17_PopAfterFlush ==
    \A c \in Conns :
        popped'[c] # popped[c] =>
            /\ popped'[c] = popped[c] + 1
            /\ _resp[c] = NoReply
            /\ Len(Out(c)) = Len(WriteStages) * popped[c]
            /\ popped[c] > 0 => Out(c)[Len(Out(c))].ev = "flush"

(* C17: at most one response is current at a time and responses are never  *)
(* interleaved on the wire: the write events of each response come in the  *)
(* order response line, headers, blank line, body, flush; the next item is *)
(* popped only after the flush of the current response has completed and   *)
(* ownership has been released; every response written had its version    *)
(* stamped and was marked done by dispatch before it was enqueued.         *)
C17_ResponsesNotInterleaved ==
    /\ []C17_OneCurrent
    /\ [][C17_PopAfterFlush]_vars

\* the second response is being written while a third one waits in the queue
C17_Witness ==
    /\ respPc[1] = "write_body"
    /\ popped[1] = 2
    /\ Len(Out(1)) = 8
    /\ Len(_replies[1]) >= 1
    /\ ~IsMarker(_replies[1][1])

(* ------------------------------ router failure -------------------------- *)

\* the router threw on the last request dispatched on c
RouterThrew(c) == read_failed[c] /\ handled[c] >= 1 /\ Throws(c, handled[c])

\* the read-path side of a router failure: no response for the failed
\* request, nothing parsed after it, the failure counted once in the read
\* counter and never in the respond counter, the marker pushed
C18_ReadPath ==
    \A c \in Conns :
        RouterThrew(c) =>
            /\ ResponsesPushed(c) = Upto(handled[c] - 1)
            /\ _read_buf[c].pos = handled[c]
            /\ _read_errors = Cardinality({d \in Conns : read_failed[d] /\ ReadSwallowed(d)})
            /\ _respond_errors = Cardinality({d \in Conns : respond_failed[d] /\ RespondSwallowed(d)})
            /\ readPc[c] \in {"then_wrapped", "push_eventually", "close", "done"}
            /\ readPc[c] \in {"close", "done"} => MarkerPushed(c)
            /\ Flushed(c) = Upto(Len(Flushed(c)))
            /\ Len(Flushed(c)) <= handled[c] - 1

\* the step in which the router throws and the step that swallows the
\* failure: the second one counts it, in the read counter only
C18_Steps ==
    \A c \in Conns :
        /\ (~read_failed[c] /\ RouterThrew(c)') =>
              /\ _read_errors' = _read_errors
              /\ _respond_errors' = _respond_errors
              /\ pushed'[c] = pushed[c]
        /\ (RouterThrew(c) /\ read_exc[c] /\ ~read_exc'[c]) =>
              /\ _read_errors' = _read_errors + 1
              /\ _respond_errors' = _respond_errors

(* C18: a failing router invocation is a read-path failure: no response is *)
(* enqueued for the failed request, the read-error counter goes up by      *)
(* exactly 1 and the respond-error counter is unchanged, nothing more is   *)
(* parsed, the terminal marker is pushed, and the responses of all earlier *)
(* requests of the connection are written in order before the respond loop *)
(* terminates.                                                             *)
C18_RouterFailureIsReadFailure ==
    /\ []C18_ReadPath
    /\ [][C18_Steps]_vars
    /\ [](\A c \in Conns :
             (RouterThrew(c) /\ respPc[c] = "done")
                 => Flushed(c) = Upto(handled[c] - 1))
    /\ \A c \in Conns :
          RouterThrew(c) ~> (MarkerPushed(c) /\ respPc[c] = "done")

(* C18 as it holds: the same, the earlier responses being all written      *)
(* unless a write of that connection fails, which ends the respond loop at *)
(* once with the responses flushed so far.                                 *)
C18_RouterFailureUnlessWriteFails ==
    /\ []C18_ReadPath
    /\ [][C18_Steps]_vars
    /\ [](\A c \in Conns :
             (RouterThrew(c) /\ respPc[c] = "done" /\ ~respond_failed[c])
                 => Flushed(c) = Upto(handled[c] - 1))
    /\ \A c \in Conns :
          RouterThrew(c) ~> (MarkerPushed(c) /\ respPc[c] = "done")

\* the router threw on the third request: the two earlier responses were
\* written, and only the read counter moved
C18_Witness ==
    /\ RouterThrew(1)
    /\ handled[1] = 3
    /\ Flushed(1) = Upto(2)
    /\ respPc[1] = "done"
    /\ readPc[1] = "done"
    /\ _read_errors = 1
    /\ _respond_errors = 0

(* ------------------------------ no deadlock ----------------------------- *)

\* the read loop of c is suspended in not_full() or in the blocking push of
\* the marker: it is at one of the two waits and has no step to take
ReadWaitsForRoom(c) ==
    /\ readPc[c] \in {"not_full", "push_eventually"}
    /\ ~ENABLED ReadLoop(c)

\* the respond loop of c is running and suspended in pop_eventually
RespondWaitsForItem(c) ==
    /\ respPc[c] = "pop_eventually"
    /\ ~ENABLED RespondLoop(c)

(* C19: the two loops of a connection never deadlock on the reply channel: *)
(* for every capacity there is no reachable state in which the read loop   *)
(* is suspended waiting for room while the respond loop is still running   *)
(* and suspended waiting for an item.                                      *)
C19_NoChannelDeadlock ==
    \A c \in Conns : ~(ReadWaitsForRoom(c) /\ RespondWaitsForItem(c))

\* the read loop waits for room in a queue of the largest capacity while
\* the respond loop is writing the first response
C19_Witness ==
    /\ ReadWaitsForRoom(1)
    /\ popped[1] = 1
    /\ Writing(1)
    /\ capacity = MaxCap

(* ------------------------------ requests served ------------------------- *)

\* the requests the parser of c has completed so far
Parsed(c) == {i \in 1.._read_buf[c].pos : IsRequest(c, i)}

\* the requests parsed on the connections 1..n
RECURSIVE ParsedUpTo(_)
ParsedUpTo(n) == IF n = 0 THEN 0 ELSE Cardinality(Parsed(n)) + ParsedUpTo(n - 1)

\* the read loop of c has started and has not closed its stream yet
ReadLoopRunning(c) == readPc[c] \notin {"idle", "done"}

C20_CountsParsed ==
    /\ _requests_served = ParsedUpTo(MaxConns)
    /\ \A c \in Conns :
          /\ readPc[c] = "not_full" => handled[c] + 1 = Cardinality(Parsed(c))
          /\ readPc[c] # "not_full" => handled[c] = Cardinality(Parsed(c))
          /\ Len(ResponsesPushed(c)) <= Cardinality(Parsed(c))
          /\ clients = {c} =>
                /\ Len(ResponsesPushed(c)) <= _requests_served
                /\ ReadLoopRunning(c) =>
                      _requests_served - Len(ResponsesPushed(c)) <= 1

\* the counter moves only in the continuation of consume, by one, when a
\* request has been parsed; no failure and no end-of-stream moves it
C20_CountedOnParse ==
    _requests_served' # _requests_served =>
        /\ _requests_served' = _requests_served + 1
        /\ \E c \in Conns :
              /\ readPc[c] = "consume"
              /\ readPc'[c] = "not_full"
              /\ _read_buf'[c].pos = _read_buf[c].pos + 1
              /\ IsRequest(c, _read_buf'[c].pos)
              /\ handled'[c] = handled[c]
              /\ pushed'[c] = pushed[c]

(* C20: requests_served counts parsed requests, not delivered responses:   *)
(* it goes up exactly once per completely parsed request, before the wait  *)
(* for room and before dispatch, never at end-of-stream, and is not rolled *)
(* back when dispatch or a write fails later.  With a single connection    *)
(* the responses enqueued are at most requests_served, and requests_served *)
(* exceeds them by at most 1 while the read loop is running.               *)
C20_RequestsServedCountsParsed ==
    /\ []C20_CountsParsed
    /\ [][C20_CountedOnParse]_vars

\* two requests parsed and counted, the second one failed in the router and
\* a write of the first response failed: the counter stays at two
C20_Witness ==
    /\ _requests_served = 2
    /\ RouterThrew(1)
    /\ respond_failed[1]
    /\ ResponsesPushed(1) = Upto(1)
    /\ Flushed(1) = <<>>
    /\ readPc[1] = "done"

====
